---- MODULE Spec2Model ----
(***************************************************************************)
(* Model of the session / OAuth glue (session.server.ts) and of the guild  *)
(* setup command (commands/setup.ts).                                      *)
(*                                                                         *)
(* The web part is a set of browsers (Clients), each with a cookie jar,    *)
(* the `sessions` table behind the database session storage and the user   *)
(* store. Every request handler is one action: it reads the Cookie header  *)
(* of the requesting client, runs the handler to its response and applies  *)
(* the response's Set-Cookie headers to the jar.                           *)
(*                                                                         *)
(* JavaScript values: strings are strings; `undefined` and `null` in a     *)
(* string position are the markers Undefined and Null; JSON.stringify(v)   *)
(* is the wrapper [json |-> v] (a string, not the object: none of v's keys *)
(* is a key of it); an object is a function from its keys to its values.   *)
(***************************************************************************)
EXTENDS Integers, Sequences, FiniteSets, TLC

\* ---------------------------------------------------------------- bounds
\* Session rows ever inserted (each gets a randomUUID id).
MaxSessions == 2
\* Local user records ever created by createUser.
MaxUsers == 1
\* How many times a row may be re-serialized into its own `data` column.
MaxDepth == 1

\* ------------------------------------------------------------- universes
\* One browser: no handler reads or writes anything of another client's request.
Clients == {"c1"}
\* External (Discord) account ids of the remote profiles fetchUser can return.
ExternalIds == {"d1", "d2"}
\* Values randomUUID() can return for the OAuth state.
StateTokens == {"t1", "t2"}
\* The token fetchToken() returns, and the one token.refresh() returns.
AccessToken == "tok"
RefreshedToken == "tok2"

Undefined == "undefined"
Null == "null"
NoId == ""

\* The two cookies of session.server.ts.
CLIENT_COOKIE == "__client-session"
DB_COOKIE == "__session"
USER_SESSION_KEY == "userId"

\* commitSession turns maxAge into the instant now+maxAge; the model keeps
\* the lifetime's name instead of the instant.
OneHour == "1h"

VARIABLES
    sessions,   \* the `sessions` table: id -> row [id, data, expires]
    uuidCount,  \* session ids generated so far
    cookies,    \* per client: [client |-> <<>> or <<cookie value>>, db |-> id or NoId]
    users,      \* the user store: set of [id, externalId]
    userCount,  \* user ids issued so far
    guilds,     \* the guild settings store: guild id -> settings
    last        \* what the last handler did (its request and its response)

vars == <<sessions, uuidCount, cookies, users, userCount, guilds, last>>

\* ------------------------------------------------------- JavaScript values
Stringify(v) == [json |-> v]

EmptyObject == [k \in {} |-> Undefined]

\* Remix createSession(initialData, id): a Map of the entries of initialData.
createSession(data, id) == [id |-> id, data |-> data]

SessionGet(session, k) ==
    IF k \in DOMAIN session.data THEN session.data[k] ELSE Undefined

SessionSet(session, k, v) ==
    [session EXCEPT !.data =
        [x \in (DOMAIN session.data) \cup {k} |->
            IF x = k THEN v ELSE session.data[x]]]

SessionUnset(session, k) ==
    [session EXCEPT !.data = [x \in (DOMAIN session.data) \ {k} |-> session.data[x]]]

\* ------------------------------------------------ cookie session storage
\* createCookieSessionStorage: the session data travels in the signed cookie
\* itself; the framework serializes on commit and parses on get.
getCookieSession(cookieHeader) ==
    IF cookieHeader.client = <<>>
    THEN createSession(EmptyObject, NoId)
    ELSE createSession(cookieHeader.client[1].json, NoId)

commitCookieSession(session) == <<Stringify(session.data)>>

destroyCookieSession(session) == <<>>

\* ---------------------------------------------- database session storage
\* knex insert: an undefined column value is stored as NULL.
createData(data, expires) ==
    LET id == ToString(uuidCount + 1)
    IN  [id |-> id,
         table |-> sessions @@
            (id :> [id |-> id,
                    data |-> Stringify(data),
                    expires |-> IF expires = Undefined THEN Null ELSE expires])]

\* JavaScript null, where a row is expected.
NullRow == [null |-> TRUE]

\* A row that carries an expiry counts as expired and is not returned.
readData_DropsExpiring(id) ==
    IF id \in DOMAIN sessions /\ sessions[id].expires = Null
    THEN sessions[id]
    ELSE NullRow

\* The row as selected, or null: the row's columns, not the data stored in
\* it, and whatever its `expires` column holds.
readData(id) ==
    IF id \in DOMAIN sessions THEN sessions[id] ELSE NullRow

\* knex update: an undefined column value is left out of the UPDATE; a missing
\* row updates nothing.
updateData(id, data, expires) ==
    IF id \in DOMAIN sessions
    THEN [sessions EXCEPT ![id] =
            [id |-> id,
             data |-> Stringify(data),
             expires |-> IF expires = Undefined THEN @.expires ELSE expires]]
    ELSE sessions

\* The delete removes no row.
deleteData_RemovesNothing(id) == sessions

deleteData(id) == [x \in (DOMAIN sessions) \ {id} |-> sessions[x]]

\* Remix createSessionStorage.getSession: id from the cookie, data from
\* readData(id) as it is returned (`data || {}`).
getDbSession(cookieHeader) ==
    LET id == cookieHeader.db
        data == IF id # NoId /\ readData(id) # NullRow
                THEN readData(id)
                ELSE EmptyObject
    IN  createSession(data, id)

\* Remix createSessionStorage.commitSession: update the row of a session that
\* has an id, insert a row otherwise; the cookie carries the id.
commitDbSession(session, maxAge) ==
    IF session.id # NoId
    THEN [id |-> session.id, table |-> updateData(session.id, session.data, maxAge)]
    ELSE createData(session.data, maxAge)

\* Remix createSessionStorage.destroySession: deleteData(session.id) and an
\* expired, empty cookie.
destroyDbSession(session) == [id |-> NoId, table |-> deleteData(session.id)]

\* Rows a commit of this session would insert.
Inserts(session) == IF session.id = NoId THEN 1 ELSE 0

RECURSIVE Depth(_)
\* Levels of `data` columns serialized inside a session's data.
Depth(data) ==
    IF "data" \in DOMAIN data THEN 1 + Depth(data["data"].json) ELSE 0


\* -------------------------------------------------------------- user store
UserId(i) == "u" \o ToString(i)

getUserById(id) == {u \in users : u.id = id}

getUserByExternalId(externalId) == {u \in users : u.externalId = externalId}

\* createUser(email, externalId): inserts a user record and returns its id.
createUser(externalId) ==
    LET id == UserId(userCount + 1)
    IN  [id |-> id, table |-> users \cup {[id |-> id, externalId |-> externalId]}]

\* ------------------------------------------------- requests and responses
\* The value stored under `state` in the database session a client's cookie
\* names (what was committed, read back by parsing the row's data).
StoredState(c) ==
    LET id == cookies[c].db
    IN  IF id \in DOMAIN sessions /\ "state" \in DOMAIN sessions[id].data.json
        THEN sessions[id].data.json.state
        ELSE Undefined

\* The user id a client's cookie session holds.
CookieUser(c) ==
    IF cookies[c].client # <<>> /\ USER_SESSION_KEY \in DOMAIN cookies[c].client[1].json
    THEN cookies[c].client[1].json[USER_SESSION_KEY]
    ELSE Undefined

\* A handler between its entry and its response: the operations of the
\* Promise.all it awaits (`todo`), the order in which those of the first pair
\* (`got`) and of the second pair (`acted`) completed, what they returned, and
\* `whole`: what the handler does when each pair runs cookie session first.
NoPair ==
    [phase |-> "none", todo |-> {}, got |-> <<>>, acted |-> <<>>,
     cookieSession |-> createSession(EmptyObject, NoId),
     dbSession |-> createSession(EmptyObject, NoId),
     cookie |-> <<>>, dbCookie |-> NoId,
     whole |-> [table |-> EmptyObject, jar |-> [client |-> <<>>, db |-> NoId],
                threw |-> FALSE,
                response |-> [status |-> 0, location |-> "", setCookie |-> {}]]]

NoResponse ==
    [op |-> "none", client |-> "none", pair |-> NoPair,
     \* a logout that directly follows a logout of the same client
     repeated |-> FALSE,
     \* the request: the db session id, the stored state and the user id its
     \* cookies carry, its path, its `state` / redirectTo parameters
     sid |-> NoId, hadRow |-> FALSE, stored |-> Undefined, cookieUser |-> Undefined,
     \* what readData returned to the request, one entry per call
     reads |-> <<>>,
     path |-> <<>>, redirectTo |-> <<>>, state |-> Undefined,
     \* the response
     status |-> 0, location |-> "", setCookie |-> {}, threw |-> FALSE,
     returned |-> Undefined,
     \* user resolution of completeOauthLogin
     existed |-> FALSE, calledCreate |-> FALSE, userId |-> Undefined,
     \* the setup interaction, what registerGuild and setSettings did, whether
     \* the guild was registered before, and the replies
     guild |-> Null, role |-> Null, channel |-> Null, registering |-> "",
     setting |-> "", registered |-> FALSE, replies |-> <<>>]

\* The handlers that fetch the database session of every request they get
\* (lines 126, 195, 209).
ReadingOperations == {"initOauthLogin", "refreshSession", "logout"}

\* The record of a request `op` of client c, before its response is known.
Request(op, c) ==
    [NoResponse EXCEPT !.op = op, !.client = c,
        !.repeated = op = "logout" /\ last.op = op /\ last.client = c,
        !.sid = cookies[c].db, !.hadRow = cookies[c].db \in DOMAIN sessions,
        !.stored = StoredState(c),
        !.reads = IF op \in ReadingOperations /\ cookies[c].db # NoId
                  THEN <<readData(cookies[c].db)>>
                  ELSE <<>>,
        !.cookieUser = CookieUser(c)]

redirect(location, status, setCookie) ==
    [status |-> status, location |-> location, setCookie |-> setCookie]

Respond(request, response, threw, returned) ==
    [request EXCEPT !.status = response.status, !.location = response.location,
                    !.setCookie = response.setCookie, !.threw = threw,
                    !.returned = returned]

\* ------------------------------------------------------------------ logout
\* logout(request) for client c: the table, the jar of c and the response.
logout(c) ==
    LET cookieSession == getCookieSession(cookies[c])
        dbSession == getDbSession(cookies[c])
        cookie == destroyCookieSession(cookieSession)
        dbCookie == destroyDbSession(dbSession)
    IN  [table |-> dbCookie.table,
         jar |-> [client |-> cookie, db |-> dbCookie.id],
         response |-> redirect("/", 302, {CLIENT_COOKIE, DB_COOKIE})]

Logout(c) ==
    LET r == logout(c)
    IN  /\ sessions' = r.table
        /\ cookies' = [cookies EXCEPT ![c] = r.jar]
        /\ last' = Respond(Request("logout", c), r.response, FALSE, Undefined)
        /\ UNCHANGED <<uuidCount, users, userCount, guilds>>

\* ----------------------------------------------------------- initOauthLogin
initOauthLogin(c, state) ==
    LET dbSession == SessionSet(getDbSession(cookies[c]), "state", state)
        committed == commitDbSession(dbSession, OneHour)
    IN  [table |-> committed.table,
         inserts |-> Inserts(dbSession),
         depth |-> Depth(dbSession.data),
         jar |-> [cookies[c] EXCEPT !.db = committed.id],
         response |-> redirect("authUrl", 302, {DB_COOKIE})]

InitOauthLogin(c) ==
    \E state \in StateTokens :
        LET r == initOauthLogin(c, state)
        IN  /\ uuidCount + r.inserts <= MaxSessions
            /\ r.depth <= MaxDepth
            /\ sessions' = r.table
            /\ uuidCount' = uuidCount + r.inserts
            /\ cookies' = [cookies EXCEPT ![c] = r.jar]
            /\ last' = Respond([Request("initOauthLogin", c) EXCEPT !.state = state],
                               r.response, FALSE, Undefined)
            /\ UNCHANGED <<users, userCount, guilds>>

\* -------------------------------------------------------- completeOauthLogin
\* Lines 149-161: the local user id for the remote profile. `lookup` is what
\* getUserByExternalId does ("returns" or "throws"), `creation` what createUser
\* does when it is called ("creates" or "fails": no id).
resolveUser(externalId, lookup, creation) ==
    LET found == IF lookup = "throws" THEN {} ELSE getUserByExternalId(externalId)
        foundId == IF found = {} THEN Undefined ELSE (CHOOSE u \in found : TRUE).id
        calledCreate == foundId = Undefined
        created == createUser(externalId)
    IN  [calledCreate |-> calledCreate,
         userId |-> IF ~calledCreate THEN foundId
                    ELSE IF creation = "creates" THEN created.id ELSE Undefined,
         users |-> IF calledCreate /\ creation = "creates" THEN created.table ELSE users]

\* The check only rejects a callback without a `state` parameter.
stateMismatch_MissingOnly(dbSession, state) == state = Null

\* The check is left out.
stateMismatch_Dropped(dbSession, state) == FALSE

\* Line 174: dbSession.get("state") !== state.
stateMismatch(dbSession, state) == SessionGet(dbSession, "state") # state

\* The cookie session is committed before the state is checked.
completeOauthLogin_CommitFirst(c, state, externalId, lookup, creation) ==
    LET resolved == resolveUser(externalId, lookup, creation)
        cookieSession == SessionSet(getCookieSession(cookies[c]),
                                    USER_SESSION_KEY, resolved.userId)
    IN  [table |-> sessions, inserts |-> 0, depth |-> 0,
         jar |-> IF resolved.userId = Undefined THEN cookies[c]
                 ELSE [cookies[c] EXCEPT !.client = commitCookieSession(cookieSession)],
         resolved |-> resolved, threw |-> TRUE,
         response |-> IF resolved.userId = Undefined THEN redirect("", 500, {})
                      ELSE redirect("/login", 401, {})]

\* The sessions are read and the state is checked before the user is resolved.
completeOauthLogin_StateFirst(c, state, externalId, lookup, creation) ==
    LET resolved == resolveUser(externalId, lookup, creation)
        dbSession == getDbSession(cookies[c])
    IN  [table |-> sessions, inserts |-> 0, depth |-> 0, jar |-> cookies[c],
         resolved |-> resolved, threw |-> TRUE,
         response |-> IF stateMismatch(dbSession, state)
                      THEN redirect("/login", 401, {})
                      ELSE redirect("", 500, {})]

completeOauthLogin(c, state, externalId, lookup, creation) ==
    LET token == AccessToken
        resolved == resolveUser(externalId, lookup, creation)
        cookieSession == getCookieSession(cookies[c])
        dbSession == getDbSession(cookies[c])
        cookieSession2 == SessionSet(cookieSession, USER_SESSION_KEY, resolved.userId)
        dbSession2 == SessionSet(SessionUnset(dbSession, "state"),
                                 "discordToken", Stringify(token))
        cookie == commitCookieSession(cookieSession2)
        dbCookie == commitDbSession(dbSession2, Undefined)
        unchanged == [table |-> sessions, inserts |-> 0, depth |-> 0,
                      jar |-> cookies[c], resolved |-> resolved, threw |-> TRUE]
    IN  IF resolved.userId = Undefined
        THEN unchanged @@ [response |-> redirect("", 500, {})]
        ELSE IF stateMismatch(dbSession, state)
        THEN unchanged @@ [response |-> redirect("/login", 401, {})]
        ELSE [table |-> dbCookie.table,
              inserts |-> Inserts(dbSession2),
              depth |-> Depth(dbSession2.data),
              jar |-> [client |-> cookie, db |-> dbCookie.id],
              resolved |-> resolved,
              threw |-> FALSE,
              response |-> redirect("/", 302, {CLIENT_COOKIE, DB_COOKIE})]

CompleteOauthLogin(c) ==
    \E state \in StateTokens \cup {Null}, externalId \in ExternalIds,
       lookup \in {"returns", "throws"}, creation \in {"creates", "fails"} :
        LET r == completeOauthLogin(c, state, externalId, lookup, creation)
            created == Cardinality(r.resolved.users) - Cardinality(users)
        IN  /\ r.resolved.calledCreate \/ creation = "creates"
            /\ userCount + created <= MaxUsers
            /\ uuidCount + r.inserts <= MaxSessions
            /\ r.depth <= MaxDepth
            /\ sessions' = r.table
            /\ uuidCount' = uuidCount + r.inserts
            /\ cookies' = [cookies EXCEPT ![c] = r.jar]
            /\ users' = r.resolved.users
            /\ userCount' = userCount + created
            /\ last' = Respond([Request("completeOauthLogin", c) EXCEPT
                                    !.state = state,
                                    !.existed = getUserByExternalId(externalId) # {},
                                    !.calledCreate = r.resolved.calledCreate,
                                    !.userId = r.resolved.userId],
                               r.response, r.threw, Undefined)
            /\ UNCHANGED guilds

\* ------------------------------------------------------------ refreshSession
\* `outcome`: parseToken(storedToken) and token.refresh() yield a new token
\* ("ok") or throw ("throws").
refreshSession(c, outcome) ==
    LET dbSession == getDbSession(cookies[c])
        storedToken == SessionGet(dbSession, "discordToken")
        newToken == RefreshedToken
        dbSession2 == SessionSet(dbSession, "discordToken", Stringify(newToken))
        committed == commitDbSession(dbSession2, Undefined)
    IN  IF outcome = "throws"
        THEN [table |-> sessions, inserts |-> 0, depth |-> 0, jar |-> cookies[c],
              threw |-> TRUE, response |-> redirect("", 500, {})]
        ELSE [table |-> committed.table,
              inserts |-> Inserts(dbSession2),
              depth |-> Depth(dbSession2.data),
              jar |-> [cookies[c] EXCEPT !.db = committed.id],
              threw |-> FALSE,
              response |-> redirect("", 200, {DB_COOKIE})]

RefreshSession(c) ==
    \E outcome \in {"ok", "throws"} :
        LET r == refreshSession(c, outcome)
        IN  /\ uuidCount + r.inserts <= MaxSessions
            /\ r.depth <= MaxDepth
            /\ sessions' = r.table
            /\ uuidCount' = uuidCount + r.inserts
            /\ cookies' = [cookies EXCEPT ![c] = r.jar]
            /\ last' = Respond(Request("refreshSession", c), r.response, r.threw,
                               IF r.threw THEN Undefined ELSE "OK")
            /\ UNCHANGED <<users, userCount, guilds>>

\* ------------------------------------------------- getUserId / requireUserId
getUserId(c) == SessionGet(getCookieSession(cookies[c]), USER_SESSION_KEY)

\* Request paths, as sequences of characters.
Paths == {<<"/">>, <<"/", "a", "%", "2", "0", "b">>}
\* Explicit redirectTo arguments of requireUserId.
RedirectTargets == {<<"/", "a", "?", "b", "=", "c", " ", "d">>}
NotGiven == <<>>

\* URLSearchParams serialization of one character
\* (application/x-www-form-urlencoded).
FormEncodeChar(ch) ==
    CASE ch = " " -> "+"
      [] ch = "/" -> "%2F"
      [] ch = "%" -> "%25"
      [] ch = "?" -> "%3F"
      [] ch = "=" -> "%3D"
      [] ch = "&" -> "%26"
      [] OTHER -> ch

RECURSIVE FormEncode(_)
FormEncode(chars) ==
    IF chars = <<>> THEN ""
    ELSE FormEncodeChar(Head(chars)) \o FormEncode(Tail(chars))

RECURSIVE Raw(_)
Raw(chars) == IF chars = <<>> THEN "" ELSE Head(chars) \o Raw(Tail(chars))

\* The target is appended as it is, not encoded.
SearchParams_Unencoded(redirectTo) == "redirectTo=" \o Raw(redirectTo)

\* new URLSearchParams([["redirectTo", redirectTo]]).toString()
SearchParams(redirectTo) == "redirectTo=" \o FormEncode(redirectTo)

\* requireUserId(request, redirectTo = new URL(request.url).pathname)
requireUserId(c, path, redirectTo) ==
    LET userId == getUserId(c)
        target == IF redirectTo = NotGiven THEN path ELSE redirectTo
    IN  IF userId = Undefined \/ userId = ""
        THEN [threw |-> TRUE, returned |-> Undefined,
              response |-> redirect("/login?" \o SearchParams(target), 302, {})]
        ELSE [threw |-> FALSE, returned |-> userId,
              response |-> redirect("", 200, {})]

RequireUserId(c) ==
    \E path \in Paths, redirectTo \in {NotGiven} \cup RedirectTargets :
        LET r == requireUserId(c, path, redirectTo)
        IN  /\ last' = Respond([Request("requireUserId", c) EXCEPT
                                    !.path = path, !.redirectTo = redirectTo],
                               r.response, r.threw, r.returned)
            /\ UNCHANGED <<sessions, uuidCount, cookies, users, userCount, guilds>>

\* ------------------------------------------------------ getUser / requireUser
\* A user id that maps to no user is answered like a missing one.
getUser_NullForUnknown(c) ==
    LET userId == getUserId(c)
        user == getUserById(userId)
    IN  [table |-> sessions, jar |-> cookies[c], threw |-> FALSE,
         returned |-> IF userId = Undefined \/ user = {} THEN Null
                      ELSE (CHOOSE u \in user : TRUE).id,
         response |-> redirect("", 200, {})]

getUser(c) ==
    LET userId == getUserId(c)
        user == getUserById(userId)
        out == logout(c)
    IN  IF userId = Undefined
        THEN [table |-> sessions, jar |-> cookies[c], threw |-> FALSE,
              returned |-> Null, response |-> redirect("", 200, {})]
        ELSE IF user # {}
        THEN [table |-> sessions, jar |-> cookies[c], threw |-> FALSE,
              returned |-> (CHOOSE u \in user : TRUE).id,
              response |-> redirect("", 200, {})]
        ELSE [table |-> out.table, jar |-> out.jar, threw |-> TRUE,
              returned |-> Undefined, response |-> out.response]

GetUser(c) ==
    LET r == getUser(c)
    IN  /\ sessions' = r.table
        /\ cookies' = [cookies EXCEPT ![c] = r.jar]
        /\ last' = Respond(Request("getUser", c), r.response, r.threw, r.returned)
        /\ UNCHANGED <<uuidCount, users, userCount, guilds>>

requireUser(c, path) ==
    LET required == requireUserId(c, path, NotGiven)
        user == getUserById(required.returned)
        out == logout(c)
    IN  IF required.threw
        THEN [table |-> sessions, jar |-> cookies[c], threw |-> TRUE,
              returned |-> Undefined, response |-> required.response]
        ELSE IF user # {}
        THEN [table |-> sessions, jar |-> cookies[c], threw |-> FALSE,
              returned |-> (CHOOSE u \in user : TRUE).id,
              response |-> redirect("", 200, {})]
        ELSE [table |-> out.table, jar |-> out.jar, threw |-> TRUE,
              returned |-> Undefined, response |-> out.response]

RequireUser(c) ==
    \E path \in Paths :
        LET r == requireUser(c, path)
        IN  /\ sessions' = r.table
            /\ cookies' = [cookies EXCEPT ![c] = r.jar]
            /\ last' = Respond([Request("requireUser", c) EXCEPT !.path = path],
                               r.response, r.threw, r.returned)
            /\ UNCHANGED <<uuidCount, users, userCount, guilds>>

\* ------------------------------------------------------------ setup command
GuildIds == {"g1"}
RoleIds == {"123", "124"}
ChannelIds == {"456", "457"}

\* SETTINGS of guilds.server: the two recognized setting keys.
SETTINGS == [modLog |-> "modLog", moderator |-> "moderator"]

\* registerGuild(guild): adds the guild, with no settings, unless it is there.
registerGuild(guild) ==
    IF guild \in DOMAIN guilds THEN guilds ELSE guilds @@ (guild :> EmptyObject)

\* setSettings(guild, settings) on a store: the guild's settings, with the
\* given ones written over them.
setSettings(store, guild, settings) ==
    IF guild \in DOMAIN store
    THEN [store EXCEPT ![guild] = settings @@ @]
    ELSE store

\* The reply of the catch block, around e.toString() of an Error with this
\* message (the code fence of the template is left out).
BrokeReply(message) == "Something broke: Error: " \o message

\* What the catch block replies for a thrown value: an Error's text, nothing
\* for a value that is not an Error.
catch(thrown) ==
    IF thrown.isError THEN <<BrokeReply(thrown.message)>> ELSE <<>>

Thrown(outcome, message) == [isError |-> outcome = "error", message |-> message]

\* The role id is written to the modLog key and the channel id to moderator.
handler_Swapped(interaction, registering, setting) ==
    LET registered == registerGuild(interaction.guild)
        settings == (SETTINGS.modLog :> interaction.role)
                    @@ (SETTINGS.moderator :> interaction.channel)
    IN  IF interaction.guild = Null \/ registering # "ok" \/ interaction.role = Null
           \/ interaction.channel = Null \/ setting # "ok"
        THEN [store |-> guilds, replies |-> <<BrokeReply("failed")>>]
        ELSE [store |-> setSettings(registered, interaction.guild, settings),
              replies |-> <<"Setup completed!">>]

\* The settings are written before the role and the channel are checked.
handler_WritesFirst(interaction, registering, setting) ==
    LET registered == registerGuild(interaction.guild)
        settings == (SETTINGS.modLog :> interaction.channel)
                    @@ (SETTINGS.moderator :> interaction.role)
        written == setSettings(registered, interaction.guild, settings)
    IN  IF interaction.guild = Null
        THEN [store |-> guilds,
              replies |-> catch(Thrown("error", "Interaction has no guild"))]
        ELSE IF registering # "ok"
        THEN [store |-> guilds,
              replies |-> catch(Thrown(registering, "registerGuild failed"))]
        ELSE IF setting # "ok"
        THEN [store |-> registered,
              replies |-> catch(Thrown(setting, "setSettings failed"))]
        ELSE IF interaction.role = Null
        THEN [store |-> written,
              replies |-> catch(Thrown("error", "Interaction has no role"))]
        ELSE IF interaction.channel = Null
        THEN [store |-> written,
              replies |-> catch(Thrown("error", "Interaction has no channel"))]
        ELSE [store |-> written, replies |-> <<"Setup completed!">>]

\* handler(interaction). `registering` and `setting` are what registerGuild and
\* setSettings do: "ok", "error" (throws an Error) or "other" (throws a value
\* that is not an Error).
handler(interaction, registering, setting) ==
    LET registered == registerGuild(interaction.guild)
        settings == (SETTINGS.modLog :> interaction.channel)
                    @@ (SETTINGS.moderator :> interaction.role)
    IN  IF interaction.guild = Null
        THEN [store |-> guilds,
              replies |-> catch(Thrown("error", "Interaction has no guild"))]
        ELSE IF registering # "ok"
        THEN [store |-> guilds,
              replies |-> catch(Thrown(registering, "registerGuild failed"))]
        ELSE IF interaction.role = Null
        THEN [store |-> registered,
              replies |-> catch(Thrown("error", "Interaction has no role"))]
        ELSE IF interaction.channel = Null
        THEN [store |-> registered,
              replies |-> catch(Thrown("error", "Interaction has no channel"))]
        ELSE IF setting # "ok"
        THEN [store |-> registered,
              replies |-> catch(Thrown(setting, "setSettings failed"))]
        ELSE [store |-> setSettings(registered, interaction.guild, settings),
              replies |-> <<"Setup completed!">>]

Handler ==
    \E guild \in GuildIds \cup {Null}, role \in RoleIds \cup {Null},
       channel \in ChannelIds \cup {Null},
       registering \in {"ok", "error", "other"}, setting \in {"ok", "error", "other"} :
        LET interaction == [guild |-> guild, role |-> role, channel |-> channel]
            r == handler(interaction, registering, setting)
        IN  /\ guilds' = r.store
            /\ last' = [NoResponse EXCEPT !.op = "setup", !.guild = guild,
                            !.role = role, !.channel = channel,
                            !.registered = guild \in DOMAIN guilds,
                            !.registering = registering, !.setting = setting,
                            !.replies = r.replies]
            /\ UNCHANGED <<sessions, uuidCount, cookies, users, userCount>>

\* ------------------------------------------------------- Promise.all pairs
\* logout (lines 207-214) and completeOauthLogin (lines 166-169, 181-186)
\* await two pairs of operations, one on the cookie session and one on the
\* database session; the operations of a pair complete in either order.
BothOperations == {"cookie", "db"}

\* Entry of the handler, up to its first Promise.all. completeOauthLogin
\* resolves the user first and throws the 500 response without one.
Enter(c) ==
    /\ last.pair.phase \in {"none", "done"}
    /\ \E op \in {"logout", "completeOauthLogin"},
          state \in StateTokens \cup {Null}, externalId \in ExternalIds,
          lookup \in {"returns", "throws"}, creation \in {"creates", "fails"} :
        LET r == IF op = "logout"
                 THEN logout(c) @@ [threw |-> FALSE, inserts |-> 0, depth |-> 0,
                                    resolved |-> [calledCreate |-> FALSE,
                                                  userId |-> Undefined,
                                                  users |-> users]]
                 ELSE completeOauthLogin(c, state, externalId, lookup, creation)
            created == Cardinality(r.resolved.users) - Cardinality(users)
            whole == [table |-> r.table, jar |-> r.jar, threw |-> r.threw,
                      response |-> r.response]
            request == [Request(op, c) EXCEPT
                            !.state = IF op = "logout" THEN Undefined ELSE state,
                            !.calledCreate = r.resolved.calledCreate,
                            !.userId = r.resolved.userId]
        IN  /\ op = "logout" =>
                    /\ state = Null /\ lookup = "returns" /\ creation = "creates"
                    /\ externalId = CHOOSE e \in ExternalIds : TRUE
            /\ op # "logout" => r.resolved.calledCreate \/ creation = "creates"
            /\ userCount + created <= MaxUsers
            /\ uuidCount + r.inserts <= MaxSessions
            /\ r.depth <= MaxDepth
            /\ users' = r.resolved.users
            /\ userCount' = userCount + created
            /\ last' = IF op # "logout" /\ r.resolved.userId = Undefined
                       THEN Respond([request EXCEPT
                                        !.pair = [NoPair EXCEPT !.phase = "done",
                                                                !.whole = whole]],
                                    redirect("", 500, {}), TRUE, Undefined)
                       ELSE [request EXCEPT
                                !.pair = [NoPair EXCEPT !.phase = "get",
                                                        !.todo = BothOperations,
                                                        !.whole = whole]]
            /\ UNCHANGED <<sessions, uuidCount, cookies, guilds>>

\* Destroying the cookie session looks the database session's row up and
\* keeps the cookie when the row is gone.
cookieOperation_NeedsRow(request) ==
    LET p == request.pair
        c == request.client
    IN  IF p.phase = "get"
        THEN [p EXCEPT !.cookieSession = getCookieSession(cookies[c])]
        ELSE IF request.op = "logout" /\ p.dbSession.id \in DOMAIN sessions
        THEN [p EXCEPT !.cookie = destroyCookieSession(p.cookieSession)]
        ELSE [p EXCEPT !.cookie = commitCookieSession(p.cookieSession)]

\* The operation on the cookie session of the awaited pair: getSession
\* (lines 167, 208), then commitSession (line 182) or destroySession
\* (line 212). It returns the cookie session or its Set-Cookie value.
cookieOperation(request) ==
    LET p == request.pair
        c == request.client
    IN  IF p.phase = "get"
        THEN [p EXCEPT !.cookieSession = getCookieSession(cookies[c])]
        ELSE IF request.op = "logout"
        THEN [p EXCEPT !.cookie = destroyCookieSession(p.cookieSession)]
        ELSE [p EXCEPT !.cookie = commitCookieSession(
                    SessionSet(p.cookieSession, USER_SESSION_KEY, request.userId))]

\* The operation on the database session of the awaited pair: getSession
\* (lines 168, 209), then commitSession (line 183) or destroySession
\* (line 213). It returns the session or the id its cookie carries, and the
\* table it leaves.
dbOperation(request) ==
    LET p == request.pair
        c == request.client
        dbSession2 == SessionSet(SessionUnset(p.dbSession, "state"),
                                 "discordToken", Stringify(AccessToken))
        done == IF request.op = "logout" THEN destroyDbSession(p.dbSession)
                ELSE commitDbSession(dbSession2, Undefined)
    IN  IF p.phase = "get"
        THEN [pair |-> [p EXCEPT !.dbSession = getDbSession(cookies[c])],
              table |-> sessions, inserts |-> 0]
        ELSE [pair |-> [p EXCEPT !.dbCookie = done.id],
              table |-> done.table,
              inserts |-> IF request.op = "logout" THEN 0 ELSE Inserts(dbSession2)]

Completes(p, operation) ==
    [p EXCEPT !.todo = @ \ {operation},
              !.got = IF p.phase = "get" THEN Append(@, operation) ELSE @,
              !.acted = IF p.phase = "act" THEN Append(@, operation) ELSE @]

CookieOperation ==
    /\ "cookie" \in last.pair.todo
    /\ last' = [last EXCEPT !.pair = Completes(cookieOperation(last), "cookie")]
    /\ UNCHANGED <<sessions, uuidCount, cookies, users, userCount, guilds>>

DbOperation ==
    /\ "db" \in last.pair.todo
    /\ LET r == dbOperation(last)
       IN  /\ sessions' = r.table
           /\ uuidCount' = uuidCount + r.inserts
           /\ last' = [last EXCEPT !.pair = Completes(r.pair, "db")]
    /\ UNCHANGED <<cookies, users, userCount, guilds>>

\* The handler continues once both operations of the awaited pair completed:
\* after the first pair, to the second one (completeOauthLogin: past the state
\* check of lines 171-176 only); after the second, to the response.
Continue ==
    LET p == last.pair
        c == last.client
    IN  /\ p.phase \in {"get", "act"}
        /\ p.todo = {}
        /\ IF p.phase = "act"
           THEN /\ cookies' = [cookies EXCEPT ![c] = [client |-> p.cookie,
                                                      db |-> p.dbCookie]]
                /\ last' = Respond([last EXCEPT !.pair.phase = "done"],
                                   redirect("/", 302, {CLIENT_COOKIE, DB_COOKIE}),
                                   FALSE, Undefined)
           ELSE IF last.op = "completeOauthLogin" /\ stateMismatch(p.dbSession, last.state)
           THEN /\ last' = Respond([last EXCEPT !.pair.phase = "done"],
                                   redirect("/login", 401, {}), TRUE, Undefined)
                /\ UNCHANGED cookies
           ELSE /\ last' = [last EXCEPT !.pair.phase = "act",
                                        !.pair.todo = BothOperations]
                /\ UNCHANGED cookies
        /\ UNCHANGED <<sessions, uuidCount, users, userCount, guilds>>

\* ------------------------------------------------------------ specification
Init ==
    /\ sessions = EmptyObject
    /\ uuidCount = 0
    /\ cookies = [c \in Clients |-> [client |-> <<>>, db |-> NoId]]
    /\ users = {}
    /\ userCount = 0
    /\ guilds = EmptyObject
    /\ last = NoResponse

\* The web application: any client sends any request.
Next ==
    \/ \E c \in Clients : InitOauthLogin(c)
    \/ \E c \in Clients : CompleteOauthLogin(c)
    \/ \E c \in Clients : RefreshSession(c)
    \/ \E c \in Clients : Logout(c)
    \/ \E c \in Clients : GetUser(c)
    \/ \E c \in Clients : RequireUserId(c)
    \/ \E c \in Clients : RequireUser(c)

Spec == Init /\ [][Next]_vars

\* Requests as inputs: the first request arrives with any cookies the
\* application can have issued earlier and any stores they can meet: a row
\* that initOauthLogin or refreshSession inserted (or none: deleted since), a
\* cookie session holding the id of a user that exists or was removed since.
InitialRows ==
    {[data |-> Stringify([state |-> t]), expires |-> OneHour] : t \in StateTokens}
    \cup {[data |-> Stringify([discordToken |-> Stringify(RefreshedToken)]),
           expires |-> Null]}

InputInit ==
    /\ uuidCount \in {0, 1}
    /\ sessions \in {EmptyObject} \cup
            {ToString(1) :> [id |-> ToString(1), data |-> r.data, expires |-> r.expires] :
                r \in {x \in InitialRows : uuidCount = 1}}
    /\ userCount \in {0, 1}
    /\ users \in {{}} \cup
            {{[id |-> UserId(1), externalId |-> e]} :
                e \in {x \in ExternalIds : userCount = 1}}
    /\ cookies \in
            [Clients ->
                {[client |-> cl, db |-> db] :
                    cl \in {<<>>} \cup
                        {<<Stringify((USER_SESSION_KEY :> UserId(i)))>> : i \in 1..userCount},
                    db \in {NoId} \cup {ToString(i) : i \in 1..uuidCount}}]
    /\ guilds = EmptyObject
    /\ last = NoResponse

SpecInput == InputInit /\ [][Next]_vars

\* The bot: setup interactions arrive one after the other.
SetupNext == Handler

SpecSetup == Init /\ [][SetupNext]_vars

\* logout and completeOauthLogin step by step, one request at a time, between
\* initOauthLogin requests that leave pending states behind.
PairNext ==
    \/ \E c \in Clients : last.pair.phase \in {"none", "done"} /\ InitOauthLogin(c)
    \/ \E c \in Clients : Enter(c)
    \/ CookieOperation
    \/ DbOperation
    \/ Continue

SpecPairs == InputInit /\ [][PairNext]_vars

\* ------------------------------------------------------------------ claims
\* A completion whose `state` parameter differs from the value stored under
\* `state` in the request's database session, either side absent included.
Mismatched(l) == l.state = Null \/ l.stored = Undefined \/ l.state # l.stored

Completed(l) == l.op = "completeOauthLogin"

\* C1, as stated: every completeOauthLogin whose `state` parameter differs from
\* the stored state ends by throwing the redirect to /login with status 401,
\* and commits no cookie session.
C1_MismatchAlways401 ==
    Completed(last) /\ Mismatched(last) =>
        /\ last.threw
        /\ last.status = 401
        /\ last.location = "/login"
        /\ CLIENT_COOKIE \notin last.setCookie

\* C1, amended: a completeOauthLogin whose `state` parameter differs from the
\* stored state ends by throwing: the redirect to /login with status 401 when
\* a local user id was resolved, the 500 response when none was; either way it
\* sets no cookie and leaves the client's cookies and the sessions table as
\* they were.
C1_MismatchThrows ==
    [][Completed(last') /\ Mismatched(last') =>
        /\ last'.threw
        /\ last'.userId # Undefined => last'.status = 401 /\ last'.location = "/login"
        /\ last'.userId = Undefined => last'.status = 500
        /\ last'.setCookie = {}
        /\ cookies' = cookies
        /\ sessions' = sessions]_vars

\* A callback carrying one token met a session where another was pending, with
\* a user resolved.
C1_Witness ==
    /\ Completed(last)
    /\ last.stored \in StateTokens
    /\ last.state \in StateTokens \ {last.stored}
    /\ last.userId # Undefined
    /\ last.status = 401

\* C2: when a local user with the remote profile's external id exists,
\* completeOauthLogin does not call createUser, whatever getUserByExternalId
\* does (it may throw).
C2_NoCreateForExisting ==
    Completed(last) /\ last.existed => ~last.calledCreate

\* No client has both a pending state in its database session and a user id
\* in its cookie session.
NoPendingWithUser ==
    \A c \in Clients : StoredState(c) # Undefined => CookieUser(c) = Undefined

\* A completion that did not succeed.
Aborted(l) == Completed(l) /\ (Mismatched(l) \/ l.threw)

\* C3, as stated: a pending state never coexists with a user id in the cookie
\* session, and a completion that is aborted creates nothing: the sessions
\* table, the cookies and the user store are as before.
C3_AbortCreatesNothing ==
    [][/\ NoPendingWithUser'
       /\ Aborted(last') =>
            sessions' = sessions /\ cookies' = cookies /\ users' = users]_vars

\* C3, amended: a pending state never coexists with a user id in the cookie
\* session, and a completion that is aborted leaves the sessions table and
\* the cookies as before (the pending state stays, no user id is stored); it
\* may have created a local user record.
C3_AbortCreatesNoSession ==
    [][/\ NoPendingWithUser'
       /\ Aborted(last') =>
            /\ sessions' = sessions
            /\ cookies' = cookies
            /\ last'.setCookie = {}]_vars

\* An aborted completion on a pending session that created a user record: the
\* pending state is still stored and the cookie session holds no user id.
C3_Witness ==
    /\ Completed(last)
    /\ last.status = 401
    /\ last.stored \in StateTokens
    /\ StoredState(last.client) = last.stored
    /\ CookieUser(last.client) = Undefined
    /\ last.calledCreate
    /\ \E u \in users : u.id = last.userId

C5_AuthenticatedOnlyByMatchingCompletion ==
    [][\A c \in Clients :
        (CookieUser(c)' # Undefined /\ CookieUser(c)' # CookieUser(c)) =>
            /\ Completed(last')
            /\ last'.client = c
            /\ ~last'.threw
            /\ last'.stored \in StateTokens
            /\ last'.state = last'.stored
            /\ CookieUser(c)' = last'.userId]_vars

\* A callback with a token on a database session that holds none: refused,
\* and the cookie session holds no user id.
C5_Witness ==
    /\ Completed(last)
    /\ last.stored = Undefined
    /\ last.state \in StateTokens
    /\ last.userId # Undefined
    /\ last.status = 401
    /\ CookieUser(last.client) = Undefined

\* C6: logout returns the redirect to `/`, leaves the client without cookies
\* and the sessions table without the row its cookie named; a logout directly
\* after a logout of the same client returns the same response and changes
\* neither the table nor the cookies.
C6_LogoutIdempotent ==
    [][last'.op = "logout" =>
        /\ ~last'.threw
        /\ last'.status = 302
        /\ last'.location = "/"
        /\ last'.setCookie = {CLIENT_COOKIE, DB_COOKIE}
        /\ cookies'[last'.client] = [client |-> <<>>, db |-> NoId]
        /\ last'.sid \notin DOMAIN sessions'
        /\ last'.repeated =>
            /\ sessions' = sessions
            /\ cookies' = cookies
            /\ last'.status = last.status
            /\ last'.location = last.location
            /\ last'.setCookie = last.setCookie]_vars

\* The second of two logouts in succession, on sessions that are gone.
C6_Witness ==
    /\ last.op = "logout"
    /\ last.repeated
    /\ last.sid = NoId
    /\ last.cookieUser = Undefined

\* C7: a setup interaction with a guild, a role and a channel, in which
\* registerGuild and setSettings do not fail, leaves the guild's moderator
\* setting at the role id and its modLog setting at the channel id, and is
\* replied to with "Setup completed!" and nothing else.
C7_SetupWritesBothSettings ==
    (/\ last.op = "setup"
     /\ last.guild # Null /\ last.role # Null /\ last.channel # Null
     /\ last.registering = "ok" /\ last.setting = "ok") =>
        /\ last.guild \in DOMAIN guilds
        /\ DOMAIN guilds[last.guild] = {"moderator", "modLog"}
        /\ guilds[last.guild]["moderator"] = last.role
        /\ guilds[last.guild]["modLog"] = last.channel
        /\ last.replies = <<"Setup completed!">>

\* A completed setup of a guild that was registered before (the spec's
\* scenario: role 123, channel 456).
C7_Witness ==
    /\ last.op = "setup"
    /\ last.registered
    /\ last.role = "123"
    /\ last.channel = "456"
    /\ last.replies = <<"Setup completed!">>
    /\ guilds[last.guild] = [moderator |-> "123", modLog |-> "456"]

\* C8: every setup interaction is replied to exactly once.
C8_ExactlyOneReply ==
    last.op = "setup" => Len(last.replies) = 1

\* The Location of the login redirect for each target of the model.
ExpectedLoginLocation(target) ==
    CASE target = <<"/">> -> "/login?redirectTo=%2F"
      [] target = <<"/", "a", "%", "2", "0", "b">> -> "/login?redirectTo=%2Fa%2520b"
      [] target = <<"/", "a", "?", "b", "=", "c", " ", "d">> ->
            "/login?redirectTo=%2Fa%3Fb%3Dc+d"

\* C9: on a request whose cookie session holds no user id, requireUserId and
\* requireUser return nothing and throw the redirect to
\* /login?redirectTo=<target>, the target being the encoded request path, or
\* the encoded redirectTo argument when one is given; no store is modified
\* and no cookie is set.
C9_MissingUserRedirectsToLogin ==
    [][(last'.op \in {"requireUserId", "requireUser"} /\ last'.cookieUser = Undefined) =>
        /\ last'.threw
        /\ last'.returned = Undefined
        /\ last'.status = 302
        /\ last'.location = ExpectedLoginLocation(
                IF last'.redirectTo = NotGiven THEN last'.path ELSE last'.redirectTo)
        /\ last'.setCookie = {}
        /\ sessions' = sessions
        /\ cookies' = cookies
        /\ users' = users]_vars

\* requireUser on a request without a cookie session, for a path that needs
\* encoding.
C9_Witness ==
    /\ last.op = "requireUser"
    /\ last.cookieUser = Undefined
    /\ last.path = <<"/", "a", "%", "2", "0", "b">>
    /\ last.location = "/login?redirectTo=%2Fa%2520b"

\* C10: on a request whose cookie session holds a user id, getUser and
\* requireUser return that user when the user store has it, destroying
\* nothing; when it has not, they throw the redirect to `/` with both
\* Set-Cookie headers, the client is left without cookies and the row its
\* database-session cookie named is deleted.
C10_UnknownUserIsLoggedOut ==
    [][(last'.op \in {"getUser", "requireUser"} /\ last'.cookieUser # Undefined) =>
        IF \E u \in users : u.id = last'.cookieUser
        THEN /\ ~last'.threw
             /\ last'.returned = last'.cookieUser
             /\ last'.setCookie = {}
             /\ sessions' = sessions
             /\ cookies' = cookies
        ELSE /\ last'.threw
             /\ last'.returned = Undefined
             /\ last'.status = 302
             /\ last'.location = "/"
             /\ last'.setCookie = {CLIENT_COOKIE, DB_COOKIE}
             /\ cookies'[last'.client] = [client |-> <<>>, db |-> NoId]
             /\ last'.sid \notin DOMAIN sessions']_vars

\* getUser met a cookie session whose user is gone, on a request that had a
\* database session: both are destroyed.
C10_Witness ==
    /\ last.op = "getUser"
    /\ last.cookieUser # Undefined
    /\ last.hadRow
    /\ last.threw
    /\ last.sid \notin DOMAIN sessions
    /\ cookies[last.client] = [client |-> <<>>, db |-> NoId]

\* A completion with a resolved user id whose `state` parameter is the state
\* stored in the request's database session.
Matching(l) ==
    /\ Completed(l)
    /\ l.stored # Undefined
    /\ l.state = l.stored
    /\ l.userId # Undefined

C12_NoUserIs500BeforeSessions ==
    [][(Completed(last') /\ last'.userId = Undefined) =>
        /\ last'.calledCreate
        /\ last'.threw
        /\ last'.status = 500
        /\ last'.setCookie = {}
        /\ sessions' = sessions
        /\ cookies' = cookies
        /\ users' = users]_vars

\* No user could be resolved on a callback whose state parameter is the
\* pending one.
C12_Witness ==
    /\ Completed(last)
    /\ last.userId = Undefined
    /\ last.stored \in StateTokens
    /\ last.state = last.stored
    /\ last.status = 500

\* A handler has responded after running its pairs step by step.
Responded(l) == l.pair.phase = "done"

\* C13: whatever the order in which the two operations of each pair of logout
\* and completeOauthLogin complete, the handler leaves the same sessions
\* table and the same cookies and gives the same response (the ones of the
\* cookie-session-first order).
C13_PairOrderIrrelevant ==
    Responded(last) =>
        /\ sessions = last.pair.whole.table
        /\ cookies[last.client] = last.pair.whole.jar
        /\ last.threw = last.pair.whole.threw
        /\ last.status = last.pair.whole.response.status
        /\ last.location = last.pair.whole.response.location
        /\ last.setCookie = last.pair.whole.response.setCookie

\* A logout of a client with a cookie session and a database session row,
\* whose database session was both fetched and destroyed first.
C13_Witness ==
    /\ Responded(last)
    /\ last.op = "logout"
    /\ last.hadRow
    /\ last.cookieUser # Undefined
    /\ last.pair.got = <<"db", "cookie">>
    /\ last.pair.acted = <<"db", "cookie">>
    /\ last.status = 302

\* C14: a refreshSession that returns on a stored database session leaves
\* the cookie session, the db cookie and the user records as they were, and
\* the data stored in the session is the data stored before with the
\* refreshed token under discordToken: every other key keeps its value.
C14_RefreshChangesOnlyToken ==
    [][(last'.op = "refreshSession" /\ last'.returned = "OK" /\ last'.hadRow) =>
        /\ cookies' = cookies
        /\ users' = users
        /\ last'.sid \in DOMAIN sessions'
        /\ LET before == sessions[last'.sid].data.json
               after == sessions'[last'.sid].data.json
           IN  /\ DOMAIN after = DOMAIN before \cup {"discordToken"}
               /\ after["discordToken"] = Stringify(RefreshedToken)
               /\ \A k \in DOMAIN before \ {"discordToken"} : after[k] = before[k]]_vars

\* C15: every readData call of a request returns the row stored under the id
\* as it is, whatever its expires column holds, and null when no row is
\* stored under the id (never created, or deleted since); the lookup itself
\* fails no request.
C15_ReadReturnsRowOrNull ==
    [][\A i \in 1..Len(last'.reads) :
        /\ last'.sid \in DOMAIN sessions => last'.reads[i] = sessions[last'.sid]
        /\ last'.sid \notin DOMAIN sessions => last'.reads[i] = NullRow
        /\ last'.op \in {"initOauthLogin", "logout"} => ~last'.threw]_vars

\* A request read a row that carries an expiry.
C15_Witness ==
    /\ last.reads # <<>>
    /\ last.hadRow
    /\ last.reads[1].id = last.sid
    /\ last.reads[1].expires = OneHour

\* A request read the id of a row that was deleted.
C15_AbsentRead ==
    /\ last.reads = <<NullRow>>
    /\ ~last.hadRow
    /\ last.sid # NoId

StoredStateIn(table, jar) ==
    IF jar.db \in DOMAIN table /\ "state" \in DOMAIN table[jar.db].data.json
    THEN table[jar.db].data.json.state
    ELSE Undefined

\* C17: the state of the latest initOauthLogin is the pending one: every
\* initOauthLogin leaves its own state stored, replacing an earlier one; a
\* completeOauthLogin with another state throws the 401 redirect and leaves
\* the pending state stored, and one with the pending state succeeds.
C17_LatestStateCompletes ==
    [][/\ last'.op = "initOauthLogin" =>
            StoredStateIn(sessions', cookies'[last'.client]) = last'.state
       /\ (Completed(last') /\ last'.userId # Undefined /\ last'.stored # Undefined) =>
            IF last'.state = last'.stored
            THEN ~last'.threw /\ last'.status = 302
            ELSE /\ last'.threw
                 /\ last'.status = 401
                 /\ StoredStateIn(sessions', cookies'[last'.client]) = last'.stored]_vars

\* C18: a setup interaction without a guild leaves the settings store as it
\* was; one with a guild but without a role or without a channel leaves every
\* stored setting as it was and at most adds the interaction's guild, with no
\* settings.
C18_AbortedSetupWritesNoSettings ==
    [][last'.op = "setup" =>
        /\ last'.guild = Null => guilds' = guilds
        /\ (last'.guild # Null /\ (last'.role = Null \/ last'.channel = Null)) =>
            /\ \A g \in DOMAIN guilds :
                /\ g \in DOMAIN guilds'
                /\ DOMAIN guilds'[g] = DOMAIN guilds[g]
                /\ \A k \in DOMAIN guilds[g] : guilds'[g][k] = guilds[g][k]
            /\ \A g \in (DOMAIN guilds') \ (DOMAIN guilds) :
                /\ g = last'.guild
                /\ DOMAIN guilds'[g] = {}]_vars

\* A setup without a role, for a guild whose settings were written by an
\* earlier setup.
C18_Witness ==
    /\ last.op = "setup"
    /\ last.registered
    /\ last.role = Null
    /\ last.channel # Null
    /\ last.replies = <<BrokeReply("Interaction has no role")>>
    /\ DOMAIN guilds[last.guild] = {"moderator", "modLog"}

\* A setup without a channel registered its guild and wrote no settings.
C18_RegisteredOnly ==
    /\ last.op = "setup"
    /\ ~last.registered
    /\ last.role # Null
    /\ last.channel = Null
    /\ last.guild \in DOMAIN guilds
    /\ DOMAIN guilds[last.guild] = {}
====
